---------------------------- MODULE Spec2Model ----------------------------
(***************************************************************************)
(* A model of conceptnet5/semantic_web.py: the URL codec (decode_url),     *)
(* the resource namer (resource_name), the deduplicating N-Triples writer  *)
(* (NTriplesWriter) and the prefix-tracking N-Triples reader               *)
(* (NTriplesReader).                                                       *)
(*                                                                         *)
(* A string is a sequence of characters.  A printable ASCII character is   *)
(* the one-character string itself; any other code point n is the string   *)
(* "U+n" (decimal), so "U+233" is e-acute and "U+65533" is the Unicode     *)
(* replacement character.  Python semantics are those of Python 3, the     *)
(* version the doctests of the module are written for; assert statements   *)
(* are enabled.                                                            *)
(***************************************************************************)
EXTENDS Integers, Sequences, FiniteSets, TLC

VARIABLES
    wKind,      \* writer: how the sink was supplied: "path", "stdout", "stream"
    wAscii,     \* writer: the sink encodes text as ASCII only
    wOpen,      \* writer: the sink is open
    wOut,       \* writer: the lines the sink has received
    wSeen,      \* writer: self.seen
    wHist,      \* the triples passed to write so far, in call order
    wLast,      \* outcome of the last writer-side call
    prefixes,   \* reader: self.prefixes
    files,      \* the contents of the two files on disk
    gens,       \* the generators returned by parse_file, one per file
    yielded,    \* what each generator has handed to its consumer
    lastNext,   \* outcome of the last next() on a generator
    lastCall,   \* outcome of the last direct parse_line / resolve_node call
    input,      \* argument of the pure function under examination
    result      \* its value

vars == << wKind, wAscii, wOpen, wOut, wSeen, wHist, wLast, prefixes, files,
           gens, yielded, lastNext, lastCall, input, result >>

writerVars == << wKind, wAscii, wOpen, wOut, wSeen, wHist, wLast >>
readerVars == << prefixes, files, gens, yielded, lastNext, lastCall >>
pureVars == << input, result >>

-----------------------------------------------------------------------------
(* Characters and Python string primitives *)

Printable ==
  << " ", "!", "\"", "#", "$", "%", "&", "'", "(", ")", "*", "+", ",", "-", ".", "/",
     "0", "1", "2", "3", "4", "5", "6", "7", "8", "9", ":", ";", "<", "=", ">", "?",
     "@", "A", "B", "C", "D", "E", "F", "G", "H", "I", "J", "K", "L", "M", "N", "O",
     "P", "Q", "R", "S", "T", "U", "V", "W", "X", "Y", "Z", "[", "\\", "]", "^", "_",
     "U+96", "a", "b", "c", "d", "e", "f", "g", "h", "i", "j", "k", "l", "m", "n", "o",
     "p", "q", "r", "s", "t", "u", "v", "w", "x", "y", "z", "{", "|", "}", "~" >>

CodeOf == [c \in {Printable[i] : i \in 1..Len(Printable)} |->
              31 + (CHOOSE i \in 1..Len(Printable) : Printable[i] = c)]

ExtCode == ("U+9" :> 9) @@ ("U+233" :> 233) @@ ("U+65533" :> 65533)

Ord(c) == IF c \in DOMAIN CodeOf THEN CodeOf[c] ELSE ExtCode[c]

Chr(n) == IF n \in 32..126 THEN Printable[n - 31] ELSE "U+" \o ToString(n)

IsAscii(s) == \A i \in 1..Len(s) : Ord(s[i]) < 128

Whitespace == {" ", "U+9"}

StartsWith(s, p) == Len(s) >= Len(p) /\ SubSeq(s, 1, Len(p)) = p

EndsWith(s, p) == Len(s) >= Len(p) /\ SubSeq(s, Len(s) - Len(p) + 1, Len(s)) = p

Drop(s, n) == SubSeq(s, n + 1, Len(s))

RECURSIVE LStrip(_, _)
LStrip(s, cs) == IF s # << >> /\ s[1] \in cs THEN LStrip(Tail(s), cs) ELSE s

RECURSIVE RStrip(_, _)
RStrip(s, cs) ==
    IF s # << >> /\ s[Len(s)] \in cs THEN RStrip(SubSeq(s, 1, Len(s) - 1), cs) ELSE s

Strip(s, cs) == RStrip(LStrip(s, cs), cs)

\* index of the first occurrence of p in s at or after position i, 0 if none
RECURSIVE Find(_, _, _)
Find(s, p, i) ==
    IF i + Len(p) - 1 > Len(s) THEN 0
    ELSE IF SubSeq(s, i, i + Len(p) - 1) = p THEN i
    ELSE Find(s, p, i + 1)

Contains(s, p) == Find(s, p, 1) # 0

\* str.split(sep): the list of fields between the occurrences of sep
RECURSIVE Split(_, _)
Split(s, sep) ==
    LET i == Find(s, sep, 1)
    IN  IF i = 0 THEN << s >>
        ELSE << SubSeq(s, 1, i - 1) >> \o Split(Drop(s, i + Len(sep) - 1), sep)

\* str.split(sep, 1)
Split1(s, sep) ==
    LET i == Find(s, sep, 1)
    IN  IF i = 0 THEN << s >>
        ELSE << SubSeq(s, 1, i - 1), Drop(s, i + Len(sep) - 1) >>

RECURSIVE RFind(_, _, _)
RFind(s, p, i) ==
    IF i < 1 THEN 0
    ELSE IF SubSeq(s, i, i + Len(p) - 1) = p THEN i
    ELSE RFind(s, p, i - 1)

\* str.rsplit(sep, 1)
RSplit1(s, sep) ==
    LET i == RFind(s, sep, Len(s) - Len(sep) + 1)
    IN  IF i = 0 THEN << s >>
        ELSE << SubSeq(s, 1, i - 1), Drop(s, i + Len(sep) - 1) >>

Last(seq) == seq[Len(seq)]

\* the sequences over S of length at most n
RECURSIVE SeqsUpTo(_, _)
SeqsUpTo(S, n) ==
    IF n = 0 THEN { << >> }
    ELSE LET shorter == SeqsUpTo(S, n - 1)
         IN  shorter \cup { << x >> \o t : x \in S, t \in { u \in shorter : Len(u) = n - 1 } }

RECURSIVE Concat(_)
Concat(ss) == IF ss = << >> THEN << >> ELSE Head(ss) \o Concat(Tail(ss))

-----------------------------------------------------------------------------
(* URL codec *)

\* str.encode('utf-8') of one code point
Utf8EncodeChar(n) ==
    IF n < 128 THEN << n >>
    ELSE IF n < 2048 THEN << 192 + (n \div 64), 128 + (n % 64) >>
    ELSE IF n < 65536
         THEN << 224 + (n \div 4096), 128 + ((n \div 64) % 64), 128 + (n % 64) >>
    ELSE << 240 + (n \div 262144), 128 + ((n \div 4096) % 64),
            128 + ((n \div 64) % 64), 128 + (n % 64) >>

RECURSIVE Utf8Encode(_)
Utf8Encode(s) ==
    IF s = << >> THEN << >> ELSE Utf8EncodeChar(Ord(Head(s))) \o Utf8Encode(Tail(s))

IsCont(b) == b \in 128..191

\* bytes.decode('utf-8', 'replace'): every maximal ill-formed run becomes U+FFFD
RECURSIVE Utf8Decode(_)
Utf8Decode(b) ==
    IF b = << >> THEN << >>
    ELSE LET b1 == b[1]
             n  == Len(b)
             lo == IF b1 = 224 THEN 160 ELSE IF b1 = 240 THEN 144 ELSE 128
             hi == IF b1 = 237 THEN 159 ELSE IF b1 = 244 THEN 143 ELSE 191
             bad(k) == << Chr(65533) >> \o Utf8Decode(Drop(b, k))
         IN  IF b1 < 128 THEN << Chr(b1) >> \o Utf8Decode(Tail(b))
             ELSE IF b1 \in 194..223 THEN
                 IF n >= 2 /\ IsCont(b[2])
                 THEN << Chr((b1 - 192) * 64 + (b[2] - 128)) >> \o Utf8Decode(Drop(b, 2))
                 ELSE bad(1)
             ELSE IF b1 \in 224..239 THEN
                 IF ~(n >= 2 /\ b[2] \in lo..hi) THEN bad(1)
                 ELSE IF ~(n >= 3 /\ IsCont(b[3])) THEN bad(2)
                 ELSE << Chr((b1 - 224) * 4096 + (b[2] - 128) * 64 + (b[3] - 128)) >>
                      \o Utf8Decode(Drop(b, 3))
             ELSE IF b1 \in 240..244 THEN
                 IF ~(n >= 2 /\ b[2] \in lo..hi) THEN bad(1)
                 ELSE IF ~(n >= 3 /\ IsCont(b[3])) THEN bad(2)
                 ELSE IF ~(n >= 4 /\ IsCont(b[4])) THEN bad(3)
                 ELSE << Chr((b1 - 240) * 262144 + (b[2] - 128) * 4096
                             + (b[3] - 128) * 64 + (b[4] - 128)) >>
                      \o Utf8Decode(Drop(b, 4))
             ELSE bad(1)

HexValue(b) ==
    IF b \in 48..57 THEN b - 48
    ELSE IF b \in 65..70 THEN b - 55
    ELSE IF b \in 97..102 THEN b - 87
    ELSE -1

\* urllib.parse.unquote_to_bytes on the bytes of the string: %XY becomes the
\* byte XY, a '%' not followed by two hex digits stays
RECURSIVE UnquoteBytes(_)
UnquoteBytes(b) ==
    IF b = << >> THEN << >>
    ELSE IF b[1] = 37 /\ Len(b) >= 3 /\ HexValue(b[2]) >= 0 /\ HexValue(b[3]) >= 0
         THEN << 16 * HexValue(b[2]) + HexValue(b[3]) >> \o UnquoteBytes(Drop(b, 3))
    ELSE << b[1] >> \o UnquoteBytes(Tail(b))

unquote(s) == UnquoteBytes(Utf8Encode(s))

Brackets == {"<", ">"}

\* one '<' taken from the front and one '>' from the back, where present
StripOnePair(url) ==
    LET a == IF url # << >> /\ url[1] = "<" THEN 1 ELSE 0
        b == IF Len(url) > a /\ url[Len(url)] = ">" THEN 1 ELSE 0
    IN  SubSeq(url, a + 1, Len(url) - b)

decode_url_strip_one(url) == Utf8Decode(unquote(StripOnePair(url)))

decode_url(url) == Utf8Decode(unquote(Strip(url, Brackets)))

-----------------------------------------------------------------------------
(* Resource namer *)

SchemeChars ==
    {Printable[i] : i \in 17..26} \cup {Printable[i] : i \in 34..59}
        \cup {Printable[i] : i \in 66..91} \cup {"+", "-", "."}

Letters == {Printable[i] : i \in 34..59} \cup {Printable[i] : i \in 66..91}

\* index of the first character of s, at or after position i, that is in cs;
\* Len(s) + 1 if there is none
RECURSIVE FindAny(_, _, _)
FindAny(s, cs, i) ==
    IF i > Len(s) THEN Len(s) + 1
    ELSE IF s[i] \in cs THEN i
    ELSE FindAny(s, cs, i + 1)

\* urllib.parse.urlsplit: scheme, then //netloc, then #fragment, then ?query
urlsplit(url) ==
    LET i == Find(url, << ":" >>, 1)
        hasScheme == /\ i > 1
                     /\ url[1] \in Letters
                     /\ \A k \in 1..(i - 1) : url[k] \in SchemeChars
        u1 == IF hasScheme THEN Drop(url, i) ELSE url
        hasNetloc == StartsWith(u1, << "/", "/" >>)
        delim == FindAny(u1, {"/", "?", "#"}, 3)
        u2 == IF hasNetloc THEN Drop(u1, delim - 1) ELSE u1
        f == Split1(u2, << "#" >>)
        q == Split1(f[1], << "?" >>)
    IN  [ scheme   |-> IF hasScheme THEN SubSeq(url, 1, i - 1) ELSE << >>,
          netloc   |-> IF hasNetloc THEN SubSeq(u1, 3, delim - 1) ELSE << >>,
          path     |-> q[1],
          query    |-> IF Len(q) = 2 THEN q[2] ELSE << >>,
          fragment |-> IF Len(f) = 2 THEN f[2] ELSE << >> ]

ResourceMarker == << "/", "r", "e", "s", "o", "u", "r", "c", "e", "/" >>

resource_name(url) ==
    LET parsed == urlsplit(decode_url(url))
        path == Strip(parsed.path, {"/"})
    IN  IF parsed.fragment # << >> THEN parsed.fragment
        ELSE IF Contains(path, ResourceMarker) THEN Last(Split(path, ResourceMarker))
        ELSE Last(Split(path, << "/" >>))

-----------------------------------------------------------------------------
(* NTriplesReader: the operations as functions of the prefix table *)

URL == << "U", "R", "L" >>

Space == << " " >>
Dot == << "." >>
PrefixKeyword == << "@", "p", "r", "e", "f", "i", "x" >>

EmptyTable == << >>

\* self.prefixes[key] = value on a dict held as a function
SetItem(table, key, value) == (key :> value) @@ table

Ok(node) == [kind |-> "node", value |-> node]
Raise(error) == [kind |-> error, value |-> << >>]

resolve_node_partition(table, encoded_url) ==
    IF StartsWith(encoded_url, << "<" >>) /\ EndsWith(encoded_url, << ">" >>)
    THEN Ok(<< URL, decode_url(encoded_url) >>)
    ELSE IF StartsWith(encoded_url, << "\"" >>)
    THEN LET parts == RSplit1(encoded_url, << "@" >>)
         IN  IF Len(parts) # 2 THEN Raise("ValueError")
             ELSE IF ~(StartsWith(parts[1], << "\"" >>) /\ EndsWith(parts[1], << "\"" >>))
             THEN Raise("AssertionError")
             ELSE Ok(<< Split(parts[2], << "-" >>)[1],
                        SubSeq(parts[1], 2, Len(parts[1]) - 1) >>)
    ELSE LET parts == Split1(encoded_url, << ":" >>)
         IN  IF Len(parts) # 2 \/ parts[1] \notin DOMAIN table
             THEN [kind |-> "KeyError", value |-> parts[1]]
             ELSE Ok(<< URL, decode_url(table[parts[1]] \o parts[2]) >>)

resolve_node_rpartition(table, encoded_url) ==
    IF StartsWith(encoded_url, << "<" >>) /\ EndsWith(encoded_url, << ">" >>)
    THEN Ok(<< URL, decode_url(encoded_url) >>)
    ELSE IF StartsWith(encoded_url, << "\"" >>)
    THEN LET parts == RSplit1(encoded_url, << "@" >>)
         IN  IF Len(parts) # 2 \/ ~(StartsWith(parts[1], << "\"" >>)
                                     /\ EndsWith(parts[1], << "\"" >>))
             THEN Raise("AssertionError")
             ELSE Ok(<< Split(parts[2], << "-" >>)[1],
                        SubSeq(parts[1], 2, Len(parts[1]) - 1) >>)
    ELSE LET parts == Split1(encoded_url, << ":" >>)
         IN  IF Len(parts) # 2 THEN Raise("ValueError")
             ELSE IF parts[1] \notin DOMAIN table
             THEN [kind |-> "KeyError", value |-> parts[1]]
             ELSE Ok(<< URL, decode_url(table[parts[1]] \o parts[2]) >>)

\* NTriplesReader.resolve_node.  Unpacking the result of rsplit / split into
\* two names raises ValueError when the separator is absent.
resolve_node(table, encoded_url) ==
    IF StartsWith(encoded_url, << "<" >>) /\ EndsWith(encoded_url, << ">" >>)
    THEN Ok(<< URL, decode_url(encoded_url) >>)
    ELSE IF StartsWith(encoded_url, << "\"" >>)
    THEN LET parts == RSplit1(encoded_url, << "@" >>)
         IN  IF Len(parts) # 2 THEN Raise("ValueError")
             ELSE IF ~(StartsWith(parts[1], << "\"" >>) /\ EndsWith(parts[1], << "\"" >>))
             THEN Raise("AssertionError")
             ELSE Ok(<< Split(parts[2], << "-" >>)[1],
                        SubSeq(parts[1], 2, Len(parts[1]) - 1) >>)
    ELSE LET parts == Split1(encoded_url, << ":" >>)
         IN  IF Len(parts) # 2 THEN Raise("ValueError")
             ELSE IF parts[1] \notin DOMAIN table
             THEN [kind |-> "KeyError", value |-> parts[1]]
             ELSE Ok(<< URL, decode_url(table[parts[1]] \o parts[2]) >>)

Returned(table, kind, value) == [prefixes |-> table, kind |-> kind, value |-> value]

parse_line_assign_first(table, line) ==
    LET fields == Split(line, Space)
    IN  IF StartsWith(line, PrefixKeyword)
        THEN IF Len(fields) # 4 THEN Returned(table, "ValueError", << >>)
             ELSE IF fields[4] # Dot
             THEN Returned(SetItem(table, RStrip(fields[2], {":"}), decode_url(fields[3])),
                           "AssertionError", << >>)
             ELSE Returned(SetItem(table, RStrip(fields[2], {":"}), decode_url(fields[3])),
                           "none", << >>)
        ELSE IF Len(fields) # 4 THEN Returned(table, "ValueError", << >>)
             ELSE IF fields[4] # Dot THEN Returned(table, "AssertionError", << >>)
             ELSE LET subj == resolve_node(table, fields[1])
                      rel  == resolve_node(table, fields[2])
                      obj  == resolve_node(table, fields[3])
                  IN  IF subj.kind # "node" THEN Returned(table, subj.kind, subj.value)
                      ELSE IF rel.kind # "node" THEN Returned(table, rel.kind, rel.value)
                      ELSE IF obj.kind # "node" THEN Returned(table, obj.kind, obj.value)
                      ELSE Returned(table, "triple",
                                    << subj.value, rel.value, obj.value >>)

\* NTriplesReader.parse_line: the table it leaves, and what it returns or raises
parse_line(table, line) ==
    LET fields == Split(line, Space)
    IN  IF StartsWith(line, PrefixKeyword)
        THEN IF Len(fields) # 4 THEN Returned(table, "ValueError", << >>)
             ELSE IF fields[4] # Dot THEN Returned(table, "AssertionError", << >>)
             ELSE Returned(SetItem(table, RStrip(fields[2], {":"}), decode_url(fields[3])),
                           "none", << >>)
        ELSE IF Len(fields) # 4 THEN Returned(table, "ValueError", << >>)
             ELSE IF fields[4] # Dot THEN Returned(table, "AssertionError", << >>)
             ELSE LET subj == resolve_node(table, fields[1])
                      rel  == resolve_node(table, fields[2])
                      obj  == resolve_node(table, fields[3])
                  IN  IF subj.kind # "node" THEN Returned(table, subj.kind, subj.value)
                      ELSE IF rel.kind # "node" THEN Returned(table, rel.kind, rel.value)
                      ELSE IF obj.kind # "node" THEN Returned(table, obj.kind, obj.value)
                      ELSE Returned(table, "triple",
                                    << subj.value, rel.value, obj.value >>)

-----------------------------------------------------------------------------
(* NTriplesWriter *)

SAME_AS == << "h", "t", "t", "p", ":", "/", "/", "w", "w", "w", ".", "w", "3", ".", "o", "r", "g", "/", "2", "0", "0", "2", "/", "0", "7", "/", "o", "w", "l", "#", "s", "a", "m", "e", "A", "s" >>

\* '<%s> <%s> <%s> .' % triple
FormatLine(triple) ==
    << "<" >> \o triple[1] \o << ">", " ", "<" >> \o triple[2]
        \o << ">", " ", "<" >> \o triple[3] \o << ">", " ", "." >>

\* print(line, file=self.stream): a file the writer opened through codecs
\* encodes before it writes, any other stream checks that it is open first
PrintOutcome(kind, ascii, open, line) ==
    IF kind = "path"
    THEN IF ascii /\ ~IsAscii(line) THEN "UnicodeEncodeError"
         ELSE IF ~open THEN "ValueError" ELSE "emitted"
    ELSE IF ~open THEN "ValueError"
         ELSE IF ascii /\ ~IsAscii(line) THEN "UnicodeEncodeError" ELSE "emitted"

write_no_dedup(seen, out, kind, ascii, open, triple) ==
    LET outcome == PrintOutcome(kind, ascii, open, FormatLine(triple))
    IN  [ seen |-> seen \cup {triple},
          out |-> IF outcome = "emitted" THEN Append(out, FormatLine(triple)) ELSE out,
          outcome |-> outcome ]

write_no_brackets(seen, out, kind, ascii, open, triple) ==
    LET line == triple[1] \o Space \o triple[2] \o Space \o triple[3] \o Space \o Dot
        outcome == PrintOutcome(kind, ascii, open, line)
    IN  IF triple \in seen THEN [seen |-> seen, out |-> out, outcome |-> "skipped"]
        ELSE [ seen |-> seen \cup {triple},
               out |-> IF outcome = "emitted" THEN Append(out, line) ELSE out,
               outcome |-> outcome ]

\* NTriplesWriter.write: the triple joins self.seen before the line is printed
write(seen, out, kind, ascii, open, triple) ==
    LET outcome == PrintOutcome(kind, ascii, open, FormatLine(triple))
    IN  IF triple \in seen THEN [seen |-> seen, out |-> out, outcome |-> "skipped"]
        ELSE [ seen |-> seen \cup {triple},
               out |-> IF outcome = "emitted" THEN Append(out, FormatLine(triple)) ELSE out,
               outcome |-> outcome ]

\* NTriplesWriter.close: whether the sink is open afterwards
close(kind, open) == IF kind # "stdout" THEN FALSE ELSE open

NoResult == [fn |-> "none", value |-> << >>]

InitWriterIdle ==
    /\ wKind = "stdout"
    /\ wAscii = FALSE
    /\ wOpen = TRUE
    /\ wOut = << >>
    /\ wSeen = { }
    /\ wHist = << >>
    /\ wLast = [op |-> "none", idx |-> 0, outcome |-> "none", value |-> << >>]

InitReaderIdle ==
    /\ prefixes = << >>
    /\ files = << << >>, << >> >>
    /\ gens = << >>
    /\ yielded = << >>
    /\ lastNext = [gen |-> 0, outcome |-> "none", line |-> 0, value |-> << >>]
    /\ lastCall = [op |-> "none", arg |-> << >>, kind |-> "none", value |-> << >>]

InitPureIdle ==
    /\ input = << >>
    /\ result = NoResult

MaxWrites == 3

WriteTriples ==
    { << << "a" >>, << "r" >>, << "b" >> >>,
      << << "a" >>, << "r" >>, << "a" >> >>,
      << << "b", "%", "4", "1" >>, << "r" >>, << "b" >> >>,
      << << "U+233" >>, << "r" >>, << "b" >> >>,
      << << "a", " ", "b" >>, << "r" >>, << "b" >> >> }

SameAsNodes == { << "a" >> }

NoWriterCall == [op |-> "none", idx |-> 0, outcome |-> "none", value |-> << >>]

\* NTriplesWriter.__init__: a path is opened by the writer with the ASCII
\* codec; a stream is taken as it is, whatever its encoding
InitWriter ==
    /\ wKind \in {"path", "stdout", "stream"}
    /\ wAscii \in (IF wKind = "path" THEN {TRUE} ELSE BOOLEAN)
    /\ wOpen = TRUE
    /\ wOut = << >>
    /\ wSeen = { }
    /\ wHist = << >>
    /\ wLast = NoWriterCall
    /\ InitReaderIdle
    /\ InitPureIdle

DoWrite(triple) ==
    LET r == write(wSeen, wOut, wKind, wAscii, wOpen, triple)
    IN  /\ Len(wHist) < MaxWrites
        /\ wSeen' = r.seen
        /\ wOut' = r.out
        /\ wHist' = Append(wHist, [t |-> triple, open |-> wOpen])
        /\ wLast' = [op |-> "write", idx |-> Len(wHist) + 1, outcome |-> r.outcome,
                     value |-> << >>]
        /\ UNCHANGED << wKind, wAscii, wOpen >>

Write == \E triple \in WriteTriples : DoWrite(triple) /\ UNCHANGED << readerVars, pureVars >>

\* NTriplesWriter.write_same_as
WriteSameAs ==
    \E node1 \in SameAsNodes, node2 \in SameAsNodes :
        DoWrite(<< node1, SAME_AS, node2 >>) /\ UNCHANGED << readerVars, pureVars >>

Close ==
    /\ wOpen' = close(wKind, wOpen)
    /\ wLast' = [op |-> "close", idx |-> 0, outcome |-> "returned", value |-> << >>]
    /\ UNCHANGED << wKind, wAscii, wOut, wSeen, wHist, readerVars, pureVars >>

\* a fresh NTriplesReader is given one of the lines the sink received
ReadBack ==
    \E i \in 1..Len(wOut) :
        LET r == parse_line(EmptyTable, wOut[i])
        IN  /\ wLast' = [op |-> "parse_line", idx |-> i, outcome |-> r.kind,
                         value |-> r.value]
            /\ UNCHANGED << wKind, wAscii, wOpen, wOut, wSeen, wHist, readerVars, pureVars >>

NextWriter == Write \/ WriteSameAs \/ Close \/ ReadBack

SpecWriter == InitWriter /\ [][NextWriter]_vars

-----------------------------------------------------------------------------
(* The pure functions applied to bounded inputs *)

MaxDecodePieces == 4
MaxNamePieces == 5

DecodePieces == { << "<" >>, << ">" >>, << "a" >>, << "%", "4", "1" >>,
                  << "%", "3", "E" >> }

NamePieces == { << "h", ":", "/", "/", "d" >>, << "/" >>, ResourceMarker,
                << "a" >>, << "#" >>, << "?" >> }

DecodeInputs == { Concat(ps) : ps \in SeqsUpTo(DecodePieces, MaxDecodePieces) }

NameInputs == { Concat(ps) : ps \in SeqsUpTo(NamePieces, MaxNamePieces) }

InitUrl ==
    /\ input \in DecodeInputs \cup NameInputs
    /\ result = NoResult
    /\ InitWriterIdle
    /\ InitReaderIdle

ApplyDecodeUrl ==
    /\ result = NoResult
    /\ result' = [fn |-> "decode_url", value |-> decode_url(input)]
    /\ UNCHANGED << input, writerVars, readerVars >>

ApplyResourceName ==
    /\ result = NoResult
    /\ result' = [fn |-> "resource_name", value |-> resource_name(input)]
    /\ UNCHANGED << input, writerVars, readerVars >>

NextUrl == ApplyDecodeUrl \/ ApplyResourceName

SpecUrl == InitUrl /\ [][NextUrl]_vars

-----------------------------------------------------------------------------
(* One reader driven by direct parse_line and resolve_node calls *)

\*   @prefix p: <h:/> .
\*   @prefix p: <h:/%41> .
\*   @prefix q:: <u> .
\*   @prefixx p <w> .
\*   @prefix p: <z>
\*   @prefix q: <z> ;
\*   @prefix p: <z> . .
\*   <a> p:b "x"@en .
\*   <a> <b> q:c .
\*   <a> <b>
\*   <a> <b> <c> ,
\*   <a> <b> "a b"@en .
CallLines ==
    {
      << "@", "p", "r", "e", "f", "i", "x", " ", "p", ":", " ", "<", "h", ":", "/", ">", " ", "." >>,
      << "@", "p", "r", "e", "f", "i", "x", " ", "p", ":", " ", "<", "h", ":", "/", "%", "4", "1", ">", " ", "." >>,
      << "@", "p", "r", "e", "f", "i", "x", " ", "q", ":", ":", " ", "<", "u", ">", " ", "." >>,
      << "@", "p", "r", "e", "f", "i", "x", "x", " ", "p", " ", "<", "w", ">", " ", "." >>,
      << "@", "p", "r", "e", "f", "i", "x", " ", "p", ":", " ", "<", "z", ">" >>,
      << "@", "p", "r", "e", "f", "i", "x", " ", "q", ":", " ", "<", "z", ">", " ", ";" >>,
      << "@", "p", "r", "e", "f", "i", "x", " ", "p", ":", " ", "<", "z", ">", " ", ".", " ", "." >>,
      << "<", "a", ">", " ", "p", ":", "b", " ", "\"", "x", "\"", "@", "e", "n", " ", "." >>,
      << "<", "a", ">", " ", "<", "b", ">", " ", "q", ":", "c", " ", "." >>,
      << "<", "a", ">", " ", "<", "b", ">" >>,
      << "<", "a", ">", " ", "<", "b", ">", " ", "<", "c", ">", " ", "," >>,
      << "<", "a", ">", " ", "<", "b", ">", " ", "\"", "a", " ", "b", "\"", "@", "e", "n", " ", "." >> }

\*   p:b
\*   q:c%41
\*   p:b:c
\*   pb
\*   (the empty string)
\*   :x
\*   <a:b
\*   <h:/%41>
\*   "x"@en-us
\*   "x@y"@en
\*   "%41"@en-us-x
\*   "x"
\*   "x@en
\*   "@en
\*   x"@en
\*   "x"@
\*   "x"@-us
CallTokens ==
    {
      << "p", ":", "b" >>,
      << "q", ":", "c", "%", "4", "1" >>,
      << "p", ":", "b", ":", "c" >>,
      << "p", "b" >>,
      <<  >>,
      << ":", "x" >>,
      << "<", "a", ":", "b" >>,
      << "<", "h", ":", "/", "%", "4", "1", ">" >>,
      << "\"", "x", "\"", "@", "e", "n", "-", "u", "s" >>,
      << "\"", "x", "@", "y", "\"", "@", "e", "n" >>,
      << "\"", "%", "4", "1", "\"", "@", "e", "n", "-", "u", "s", "-", "x" >>,
      << "\"", "x", "\"" >>,
      << "\"", "x", "@", "e", "n" >>,
      << "\"", "@", "e", "n" >>,
      << "x", "\"", "@", "e", "n" >>,
      << "\"", "x", "\"", "@" >>,
      << "\"", "x", "\"", "@", "-", "u", "s" >> }

NoReaderCall == [op |-> "none", arg |-> << >>, kind |-> "none", value |-> << >>]

\* NTriplesReader.__init__
InitCalls ==
    /\ prefixes = EmptyTable
    /\ files = << << >>, << >> >>
    /\ gens = << >>
    /\ yielded = << >>
    /\ lastNext = [gen |-> 0, outcome |-> "none", line |-> 0, value |-> << >>]
    /\ lastCall = NoReaderCall
    /\ InitWriterIdle
    /\ InitPureIdle

ParseLine ==
    \E line \in CallLines :
        LET r == parse_line(prefixes, line)
        IN  /\ prefixes' = r.prefixes
            /\ lastCall' = [op |-> "parse_line", arg |-> line, kind |-> r.kind,
                            value |-> r.value]
            /\ UNCHANGED << files, gens, yielded, lastNext, writerVars, pureVars >>

ResolveNode ==
    \E token \in CallTokens :
        LET r == resolve_node(prefixes, token)
        IN  /\ lastCall' = [op |-> "resolve_node", arg |-> token, kind |-> r.kind,
                            value |-> r.value]
            /\ UNCHANGED << prefixes, files, gens, yielded, lastNext, writerVars, pureVars >>

NextCalls == ParseLine \/ ResolveNode

Spec == InitCalls /\ [][NextCalls]_vars

-----------------------------------------------------------------------------
(* One reader consuming two files through parse_file *)

MaxFileLen == 2

\*   '@prefix p: <h:/> .'
\*   ' '
\*   '<a> <b> <c> .'
\*   '<a> <b>'
File1Lines ==
    {
      << "@", "p", "r", "e", "f", "i", "x", " ", "p", ":", " ", "<", "h", ":", "/", ">", " ", "." >>,
      << " " >>,
      << "<", "a", ">", " ", "<", "b", ">", " ", "<", "c", ">", " ", "." >>,
      << "<", "a", ">", " ", "<", "b", ">" >> }

\*   '<a> p:b%41 <c> .'
\*   ' <a> <b> p:b .'
\*   '<a> <b> "a b"@en .'
File2Lines ==
    {
      << "<", "a", ">", " ", "p", ":", "b", "%", "4", "1", " ", "<", "c", ">", " ", "." >>,
      << " ", "<", "a", ">", " ", "<", "b", ">", " ", "p", ":", "b", " ", "." >>,
      << "<", "a", ">", " ", "<", "b", ">", " ", "\"", "a", " ", "b", "\"", "@", "e", "n", " ", "." >> }

NoNext == [gen |-> 0, outcome |-> "none", line |-> 0, value |-> << >>]

NotCalled == [status |-> "none", pos |-> 0]

InitFiles ==
    /\ prefixes = EmptyTable
    /\ files \in SeqsUpTo(File1Lines, MaxFileLen) \X SeqsUpTo(File2Lines, MaxFileLen)
    /\ gens = << NotCalled, NotCalled >>
    /\ yielded = << << >>, << >> >>
    /\ lastNext = NoNext
    /\ lastCall = NoReaderCall
    /\ InitWriterIdle
    /\ InitPureIdle

parse_file_fresh_table(table, filename) ==
    [prefixes |-> EmptyTable, gen |-> [status |-> "suspended", pos |-> 0]]

\* NTriplesReader.parse_file: calling it only makes the generator; no line
\* is read and the table is not touched before the first next()
parse_file(table, filename) ==
    [prefixes |-> table, gen |-> [status |-> "suspended", pos |-> 0]]

\* the body of the generator from the line after pos up to its next yield,
\* its end or the first line that raises
RECURSIVE RunToYield(_, _, _)
RunToYield(lines, pos, table) ==
    IF pos = Len(lines)
    THEN [pos |-> pos, prefixes |-> table, outcome |-> "StopIteration", value |-> << >>]
    ELSE LET line == Strip(lines[pos + 1], Whitespace)
             r == parse_line(table, line)
         IN  IF line = << >> THEN RunToYield(lines, pos + 1, table)
             ELSE IF r.kind = "none" THEN RunToYield(lines, pos + 1, r.prefixes)
             ELSE [pos |-> pos + 1, prefixes |-> r.prefixes,
                   outcome |-> IF r.kind = "triple" THEN "yield" ELSE r.kind,
                   value |-> r.value]

ParseFile ==
    \E f \in {1, 2} :
        LET r == parse_file(prefixes, f)
        IN  /\ gens[f].status = "none"
            /\ gens' = [gens EXCEPT ![f] = r.gen]
            /\ prefixes' = r.prefixes
            /\ UNCHANGED << files, yielded, lastNext, lastCall, writerVars, pureVars >>

\* next() on a generator that has not finished
GenNext ==
    \E g \in {1, 2} :
        LET r == RunToYield(files[g], gens[g].pos, prefixes)
        IN  /\ gens[g].status = "suspended"
            /\ prefixes' = r.prefixes
            /\ gens' = [gens EXCEPT ![g] =
                          [status |-> IF r.outcome = "yield" THEN "suspended" ELSE "finished",
                           pos |-> r.pos]]
            /\ yielded' = IF r.outcome = "yield"
                          THEN [yielded EXCEPT ![g] =
                                   Append(@, [line |-> r.pos, triple |-> r.value])]
                          ELSE yielded
            /\ lastNext' = [gen |-> g, outcome |-> r.outcome,
                            line |-> IF r.outcome = "StopIteration" THEN 0 ELSE r.pos,
                            value |-> r.value]
            /\ UNCHANGED << files, lastCall, writerVars, pureVars >>

\* next() on a generator that returned or raised: StopIteration, nothing read
GenNextFinished ==
    \E g \in {1, 2} :
        /\ gens[g].status = "finished"
        /\ lastNext' = [gen |-> g, outcome |-> "StopIteration", line |-> 0, value |-> << >>]
        /\ UNCHANGED << prefixes, files, gens, yielded, lastCall, writerVars, pureVars >>

NextFiles == ParseFile \/ GenNext \/ GenNextFinished

SpecFiles == InitFiles /\ [][NextFiles]_vars

-----------------------------------------------------------------------------
(* Properties of the pure functions *)

\* the substrings of s left after taking at most one "<" from its front and
\* at most one ">" from its back
AtMostOnePairRemoved(s) ==
    { SubSeq(s, a + 1, Len(s) - b) :
        a \in { k \in {0, 1} : k = 0 \/ (s # << >> /\ s[1] = "<") },
        b \in { k \in {0, 1} : k = 0 \/ (s # << >> /\ s[Len(s)] = ">") } }

\* C10 as stated: decode_url percent-decodes its input less at most one
\* leading "<" and at most one trailing ">"; any further bracket is kept.
C10_StripsAtMostOnePair ==
    result.fn = "decode_url" =>
        \E s \in AtMostOnePairRemoved(input) :
            result.value = Utf8Decode(unquote(s))

\* s = pre \o mid \o post with pre and post made of brackets only and mid
\* neither starting nor ending with a bracket
IsBracketCore(s, i, j) ==
    /\ \A k \in 1..i : s[k] \in Brackets
    /\ \A k \in j..Len(s) : s[k] \in Brackets
    /\ i < j
    /\ (j - i > 1 => s[i + 1] \notin Brackets /\ s[j - 1] \notin Brackets)

\* C10 amended: decode_url removes every "<" and ">" of the leading run and
\* of the trailing run of brackets, in any number and order, and
\* percent-decodes what is between them, interior brackets included.
C10_StripsAllEndBrackets ==
    result.fn = "decode_url" =>
        \E i \in 0..Len(input), j \in 1..(Len(input) + 1) :
            /\ IsBracketCore(input, i, j)
            /\ result.value = Utf8Decode(unquote(SubSeq(input, i + 1, j - 1)))

C10_Witness ==
    /\ result.fn = "decode_url"
    /\ input = << "<", "<", "a", ">" >>
    /\ result.value = << "a" >>

AfterLast(s, p) == Drop(s, RFind(s, p, Len(s) - Len(p) + 1) + Len(p) - 1)

\* C7 as stated: with no fragment, a path containing "/resource/" (also at
\* its very start) gives everything after the last "/resource/", further
\* slashes included; only a path without it gives the item after the final
\* slash.  Trailing slashes of the path are not counted against the claim.
C7_NameIsAfterLastResourceMarker ==
    result.fn = "resource_name" =>
        LET parsed == urlsplit(decode_url(input))
            path == RStrip(parsed.path, {"/"})
        IN  parsed.fragment = << >> =>
                IF Contains(path, ResourceMarker)
                THEN result.value = AfterLast(path, ResourceMarker)
                ELSE result.value = Last(Split(Strip(path, {"/"}), << "/" >>))

-----------------------------------------------------------------------------
(* Properties of the writer *)

\* the calls of the history that pass a triple no earlier call passed
FirstWrites(hist) ==
    SelectSeq([i \in 1..Len(hist) |->
                  [t |-> hist[i].t, open |-> hist[i].open,
                   first |-> \A j \in 1..(i - 1) : hist[j].t # hist[i].t]],
              LAMBDA e : e.first)

LinesOf(entries) == [i \in 1..Len(entries) |-> FormatLine(entries[i].t)]

\* C1 as stated: over any sequence of write calls the sink holds exactly one
\* line '<s> <r> <o> .' per distinct triple, in order of first write.
C1_OneLinePerDistinctTriple ==
    (\A i \in 1..Len(wHist) : wHist[i].open) => wOut = LinesOf(FirstWrites(wHist))

SinkAccepts(e) == e.open /\ (wAscii => IsAscii(FormatLine(e.t)))

\* C1 amended: the sink holds exactly one line per distinct triple whose
\* first write found the sink open and able to encode the line, in order of
\* first write; a triple whose first write raised is seen all the same, and
\* no later write of it emits anything.
C1_OneLinePerAcceptedTriple ==
    /\ wOut = LinesOf(SelectSeq(FirstWrites(wHist), SinkAccepts))
    /\ wSeen = { wHist[i].t : i \in 1..Len(wHist) }

C1_Witness ==
    /\ Len(wHist) = 3
    /\ wHist[1].t = wHist[2].t
    /\ wHist[3].t # wHist[1].t
    /\ wHist[3].t[1] = wHist[1].t[1]
    /\ wHist[3].t[2] = wHist[1].t[2]
    /\ Len(wOut) = 2
    /\ wLast.op = "write"

EmittedTriples == [i \in 1..Len(wOut) |-> SelectSeq(FirstWrites(wHist), SinkAccepts)[i].t]

\* an ASCII string without whitespace or angle brackets
IsAsciiUrl(s) ==
    /\ IsAscii(s)
    /\ \A i \in 1..Len(s) : s[i] \notin Whitespace \cup Brackets

NodesOf(triple) == << << URL, triple[1] >>, << URL, triple[2] >>, << URL, triple[3] >> >>

\* C2 as stated: parse_line on the line emitted for a triple of ASCII URL
\* strings returns the three strings written, each tagged URL.
C2_RoundTripIsIdentity ==
    wLast.op = "parse_line" =>
        LET t == EmittedTriples[wLast.idx]
        IN  (\A k \in 1..3 : IsAsciiUrl(t[k])) =>
                wLast.outcome = "triple" /\ wLast.value = NodesOf(t)

\* C2 amended: parse_line on the line emitted for a triple of ASCII URL
\* strings returns each string with its percent-escapes decoded, tagged URL;
\* that is the string written exactly when it holds no percent-escape.
C2_RoundTripDecodes ==
    wLast.op = "parse_line" =>
        LET t == EmittedTriples[wLast.idx]
        IN  (\A k \in 1..3 : IsAsciiUrl(t[k])) =>
                /\ wLast.outcome = "triple"
                /\ \A k \in 1..3 :
                      /\ wLast.value[k] = << URL, Utf8Decode(unquote(t[k])) >>
                      /\ ("%" \notin {t[k][i] : i \in 1..Len(t[k])} =>
                              wLast.value[k] = << URL, t[k] >>)

C2_Witness ==
    /\ wLast.op = "parse_line"
    /\ wLast.outcome = "triple"
    /\ wLast.value = NodesOf(EmittedTriples[wLast.idx])
    /\ EmittedTriples[wLast.idx][2] = SAME_AS

\* C6 as stated: after close the sink is closed if and only if the writer
\* opened it from a path; a sink supplied open by the caller stays open.
C6_CloseOnlyOwnedSink ==
    wLast.op = "close" => (~wOpen <=> wKind = "path")

-----------------------------------------------------------------------------
(* Properties of resolve_node and parse_line under direct calls *)

IsBracketed(token) == StartsWith(token, << "<" >>) /\ EndsWith(token, << ">" >>)

\* neither bracketed nor a literal: the token is read as prefix:resource
IsPrefixedForm(token) == ~IsBracketed(token) /\ ~StartsWith(token, << "\"" >>)

HasChar(s, c) == \E i \in 1..Len(s) : s[i] = c

\* the part of s before its first c, all of s when it has none
Before(s, c) == SubSeq(s, 1, FindAny(s, {c}, 1) - 1)

\* C4 as stated: every token of the prefixed form whose part before the
\* first ":" is not a key of the table makes resolve_node raise the
\* unknown-prefix error (KeyError) and nothing else, the table unchanged.
C4_UnknownPrefixRaisesKeyError ==
    [][ ( /\ lastCall'.op = "resolve_node"
          /\ IsPrefixedForm(lastCall'.arg)
          /\ Before(lastCall'.arg, ":") \notin DOMAIN prefixes )
        => (lastCall'.kind = "KeyError" /\ prefixes' = prefixes) ]_vars

\* C4 amended: such a token raises KeyError when it contains a ":" and
\* ValueError (the failed unpacking of the split) when it contains none; the
\* table is unchanged either way.
C4_UnknownPrefixWithColonRaisesKeyError ==
    [][ ( /\ lastCall'.op = "resolve_node"
          /\ IsPrefixedForm(lastCall'.arg)
          /\ Before(lastCall'.arg, ":") \notin DOMAIN prefixes )
        => /\ prefixes' = prefixes
           /\ lastCall'.kind = IF HasChar(lastCall'.arg, ":") THEN "KeyError"
                               ELSE "ValueError" ]_vars

C4_Witness ==
    /\ lastCall.op = "resolve_node"
    /\ lastCall.kind = "KeyError"
    /\ lastCall.arg = << "q", ":", "c", "%", "4", "1" >>
    /\ DOMAIN prefixes = { << "p" >> }

\* s = quoted \o "@" \o tag with no "@" in tag
SplitsAtLastAt(s, quoted, tag) ==
    /\ s = quoted \o << "@" >> \o tag
    /\ ~HasChar(tag, "@")

IsQuoted(s) == s # << >> /\ s[1] = "\"" /\ s[Len(s)] = "\""

Prefixes(s) == { SubSeq(s, 1, n) : n \in 0..Len(s) }
Suffixes(s) == { SubSeq(s, n, Len(s)) : n \in 1..(Len(s) + 1) }

\* C8 as stated: a token starting with a double quote is split at its last
\* "@"; a quoted segment in double quotes gives (tag up to its first "-",
\* segment less its two quotes); anything else, a token with no "@"
\* included, raises the assertion error.
C8_LiteralOrAssertionError ==
    (lastCall.op = "resolve_node" /\ StartsWith(lastCall.arg, << "\"" >>)) =>
        IF \E q \in Prefixes(lastCall.arg), tag \in Suffixes(lastCall.arg) :
               SplitsAtLastAt(lastCall.arg, q, tag) /\ IsQuoted(q)
        THEN \E q \in Prefixes(lastCall.arg), tag \in Suffixes(lastCall.arg) :
               /\ SplitsAtLastAt(lastCall.arg, q, tag)
               /\ lastCall.kind = "node"
               /\ lastCall.value = << Before(tag, "-"), SubSeq(q, 2, Len(q) - 1) >>
        ELSE lastCall.kind = "AssertionError"

\* C8 amended: as stated, except that a token with no "@" at all raises
\* ValueError (the failed unpacking of the rsplit); the assertion error is
\* raised only when there is an "@" and the quoted segment lacks a quote.
C8_LiteralOrAssertionOrValueError ==
    (lastCall.op = "resolve_node" /\ StartsWith(lastCall.arg, << "\"" >>)) =>
        IF \E q \in Prefixes(lastCall.arg), tag \in Suffixes(lastCall.arg) :
               SplitsAtLastAt(lastCall.arg, q, tag) /\ IsQuoted(q)
        THEN \E q \in Prefixes(lastCall.arg), tag \in Suffixes(lastCall.arg) :
               /\ SplitsAtLastAt(lastCall.arg, q, tag)
               /\ lastCall.kind = "node"
               /\ lastCall.value = << Before(tag, "-"), SubSeq(q, 2, Len(q) - 1) >>
        ELSE lastCall.kind = IF HasChar(lastCall.arg, "@") THEN "AssertionError"
                             ELSE "ValueError"

C8_Witness ==
    /\ lastCall.op = "resolve_node"
    /\ lastCall.arg = << "\"", "x", "@", "y", "\"", "@", "e", "n" >>
    /\ lastCall.value = << << "e", "n" >>, << "x", "@", "y" >> >>

\* a line parse_line takes for a prefix definition and accepts: it starts
\* with "@prefix" and has four space-separated fields, the fourth "."
IsAcceptedPrefixLine(line) ==
    /\ StartsWith(line, PrefixKeyword)
    /\ Len(Split(line, Space)) = 4
    /\ Split(line, Space)[4] = Dot

-----------------------------------------------------------------------------
(* Properties of parse_file *)

\* the lines of a file as parse_file hands them to parse_line
Trimmed(line) == Strip(line, Whitespace)

\* the accepted definitions of prefix key among the first n lines of a file
DefinitionsOf(lines, n, key) ==
    { i \in 1..n : /\ IsAcceptedPrefixLine(Trimmed(lines[i]))
                   /\ RStrip(Split(Trimmed(lines[i]), Space)[2], {":"}) = key }

\* the base URL the latest of those definitions declares
DeclaredBase(lines, n, key) ==
    LET i == CHOOSE d \in DefinitionsOf(lines, n, key) :
                 \A e \in DefinitionsOf(lines, n, key) : e <= d
    IN  decode_url(Split(Trimmed(lines[i]), Space)[3])

\* the tokens of the line of the second file that the last next() stopped at
LastLineTokens == Split(Trimmed(files[2][lastNext.line]), Space)

\* token k of that line is p:res with p defined in the part of the first
\* file that parse_file has gone through
UsesFirstFilePrefix(k) ==
    /\ IsPrefixedForm(LastLineTokens[k])
    /\ HasChar(LastLineTokens[k], ":")
    /\ DefinitionsOf(files[1], gens[1].pos, Before(LastLineTokens[k], ":")) # { }

ResourceOf(token) == Drop(token, Len(Before(token, ":")) + 1)

\* C3 as stated: a prefix defined by a file parsed through parse_file is
\* known to a later parse_file on the same reader; p:res in the second file
\* resolves to ('URL', base_p + res), base_p the base declared in the first.
C3_PrefixPersistsAsConcatenation ==
    (lastNext.gen = 2 /\ lastNext.line > 0) =>
        \A k \in 1..3 :
            UsesFirstFilePrefix(k) =>
                /\ lastNext.outcome = "yield"
                /\ lastNext.value[k] =
                      << URL, DeclaredBase(files[1], gens[1].pos, Before(LastLineTokens[k], ":"))
                                 \o ResourceOf(LastLineTokens[k]) >>

\* C3 amended: the prefix persists as stated, and p:res resolves to
\* ('URL', decode_url(base_p + res)): the concatenation is percent-decoded,
\* so it is base_p + res itself only when that holds no percent-escape.
C3_PrefixPersistsDecoded ==
    (lastNext.gen = 2 /\ lastNext.line > 0) =>
        \A k \in 1..3 :
            UsesFirstFilePrefix(k) =>
                LET joined == DeclaredBase(files[1], gens[1].pos,
                                           Before(LastLineTokens[k], ":"))
                                  \o ResourceOf(LastLineTokens[k])
                IN  /\ lastNext.outcome = "yield"
                    /\ lastNext.value[k] = << URL, Utf8Decode(unquote(joined)) >>
                    /\ (~HasChar(joined, "%") => lastNext.value[k] = << URL, joined >>)

C3_Witness ==
    /\ lastNext.gen = 2
    /\ lastNext.outcome = "yield"
    /\ gens[1].status = "finished"
    /\ UsesFirstFilePrefix(3)
    /\ lastNext.value[3] = << URL, << "h", ":", "/", "b" >> >>

NoSpaceOrBracket(s) == \A i \in 1..Len(s) : s[i] \notin {" ", "<", ">"}

\* a statement token: <url>, prefix:resource with a known prefix, or
\* "text"@lang
IsStatementToken(token, table) ==
    \/ /\ Len(token) >= 2
       /\ IsBracketed(token)
       /\ NoSpaceOrBracket(SubSeq(token, 2, Len(token) - 1))
    \/ /\ IsPrefixedForm(token)
       /\ HasChar(token, ":")
       /\ NoSpaceOrBracket(token)
       /\ Before(token, ":") \in DOMAIN table
    \/ \E q \in Prefixes(token), tag \in Suffixes(token) :
          /\ SplitsAtLastAt(token, q, tag)
          /\ Len(q) >= 2
          /\ IsQuoted(q)
          /\ tag # << >>
          /\ NoSpaceOrBracket(tag)

\* three statement tokens separated by single spaces and followed by " ."
IsWellFormedStatement(line, table) ==
    /\ ~StartsWith(line, PrefixKeyword)
    /\ \E i \in 1..Len(line), j \in 1..Len(line) :
          /\ i < j
          /\ j < Len(line) - 1
          /\ line[i] = " "
          /\ line[j] = " "
          /\ SubSeq(line, Len(line) - 1, Len(line)) = << " ", "." >>
          /\ IsStatementToken(SubSeq(line, 1, i - 1), table)
          /\ IsStatementToken(SubSeq(line, i + 1, j - 1), table)
          /\ IsStatementToken(SubSeq(line, j + 1, Len(line) - 2), table)

\* the lines among the first n that are neither blank nor prefix lines
StatementLines(lines, n) ==
    SelectSeq([i \in 1..n |-> i],
              LAMBDA i : Trimmed(lines[i]) # << >>
                         /\ ~StartsWith(Trimmed(lines[i]), PrefixKeyword))

\* C5 as stated: what a generator has yielded is one triple per statement
\* line it has gone through, in file order, nothing for blank and prefix
\* lines; a line raises only if it is not a well-formed statement, the
\* triples of the lines before it have been yielded by then, and nothing is
\* yielded after it.
C5_OneTriplePerWellFormedLine ==
    /\ \A g \in {1, 2} :
          LET raised == lastNext.gen = g /\ lastNext.line > 0 /\ lastNext.outcome # "yield"
              done == IF gens[g].status = "finished" /\ gens[g].pos > 0
                         /\ (yielded[g] = << >> \/ Last(yielded[g]).line # gens[g].pos)
                         /\ Trimmed(files[g][gens[g].pos]) # << >>
                         /\ ~StartsWith(Trimmed(files[g][gens[g].pos]), PrefixKeyword)
                      THEN gens[g].pos - 1 ELSE gens[g].pos
          IN  /\ [i \in 1..Len(yielded[g]) |-> yielded[g][i].line]
                    = StatementLines(files[g], done)
              /\ raised => ~IsWellFormedStatement(Trimmed(files[g][lastNext.line]), prefixes)
    /\ lastNext.outcome = "yield" =>
          IsWellFormedStatement(Trimmed(files[lastNext.gen][lastNext.line]), prefixes)

=============================================================================
